---- MODULE Spec2Model ----
(***************************************************************************)
(* markup-it: the State record of src/src/index.js (the rule-application   *)
(* engine).  A State is an immutable record; deserialize(text) runs lex    *)
(* over the text, serialize(nodes) runs _serialize over the node queue.    *)
(*                                                                         *)
(* Texts are sequences of one-character strings.  A node is a record       *)
(* [kind, type, text, marks, nodes].  Rules are records                    *)
(* [name, deserialize, serialize]: the two booleans say which of the two   *)
(* functions the rule object carries (rule[kind] in applyRules); the       *)
(* function bodies are in DeserializeRule and SerializeRule.               *)
(*                                                                         *)
(* Specifications:                                                         *)
(*   Spec       deserialize, serialize and deserialize again on a State    *)
(*              fresh from State.create / use                              *)
(*   SpecOps    the same on a State the caller operated on first, with     *)
(*              rules that pass props down and rules that make no progress *)
(*   SpecPar    two conversions on one State, their calls interleaved      *)
(*   SpecMatch  matchRule of src/lib/parse/matchRule.js                    *)
(***************************************************************************)
EXTENDS Integers, Sequences, FiniteSets, TLC

VARIABLES
    base,    \* the State the conversions are called on (State.create, use)
    input,   \* the text given to the first deserialize
    pc,      \* "ready" | "lex" | "decoded" | "ser" | "encoded" | "done" | "error"
    phase,   \* 0: nothing called yet, 1: deserialize(input), 2: serialize of its
             \* nodes, 3: deserialize of the serialized text
    st,      \* `this` of the running lex / _serialize call
    rest,    \* lex's `rest` argument: the pending unmatched characters
    steps,   \* number of applyRules attempts made by the running loop
    shrunk,  \* every match accepted by the running lex shortened the text
    first,   \* nodes returned by the first deserialize
    out,     \* text returned by serialize
    second,  \* nodes returned by the second deserialize
    err,     \* the Error thrown, NoError when none
    written, \* the texts the accepted rule applications of serialize appended
    conv,    \* two conversions run side by side on base (SpecPar)
    mr       \* a call of matchRule: its arguments and its result (SpecMatch)

vars == <<base, input, pc, phase, st, rest, steps, shrunk, first, out, second, err,
          written, conv, mr>>

(***************************************************************************)
(* Bounds of the model.                                                    *)
(***************************************************************************)
MaxLen == 6      \* longest input text
MaxSteps == 9    \* cap on the attempts of a lex loop that makes no progress
MaxParLen == 1   \* longest free text of the conversions run side by side
MaxOpsLen == 2   \* longest free text converted on a receiver that was operated on
MaxDepth == 1    \* largest |depth| up() and down() bring the receiver to
MaxMatches == 2  \* most matches a text matcher returns in one list

Chars == {"a", "*", " "}
Letters == {"a", "b"}
BOLD == "BOLD"
BLOCKS_TEXT == "unstyled"

RECURSIVE SeqsUpTo(_, _)
SeqsUpTo(S, n) ==
    IF n = 0 THEN {<<>>}
    ELSE LET shorter == SeqsUpTo(S, n - 1)
         IN  shorter \cup {Append(t, c) : t \in {u \in shorter : Len(u) = n - 1}, c \in S}

Examples == { <<"*", "*", "a", "*", "*", "b">>,
              <<"b", "*", "*", "a", "*", "*">> }

Texts == SeqsUpTo(Chars, MaxLen) \cup Examples

ParTexts == SeqsUpTo(Chars, MaxParLen) \cup Examples

OpsTexts == SeqsUpTo(Chars, MaxOpsLen) \cup Examples \cup {<<"*", "a", "*">>}

Range(s) == {s[i] : i \in DOMAIN s}

(***************************************************************************)
(* Values standing for JavaScript's undefined and for "nothing thrown".    *)
(***************************************************************************)
None == [none |-> TRUE]
\* undefined as the value of a prop (the props of the model are strings)
Undefined == "undefined"
NoError == [noerror |-> TRUE]
IsError(x) == "message" \in DOMAIN x

IdenticalStateError ==
    [message |-> <<"A rule returns an identical state, returns undefined instead when passing.">>]
NoRuleError(node) ==
    [message |-> <<"No rule match node ", node.kind, "#", node.type>>]

(***************************************************************************)
(* Nodes of the document model (slate's Text and Block).                   *)
(***************************************************************************)
TextNode(text, marks) ==
    [kind |-> "text", type |-> "", text |-> text, marks |-> marks, nodes |-> <<>>]
BlockNode(type, nodes) ==
    [kind |-> "block", type |-> type, text |-> <<>>, marks |-> {}, nodes |-> nodes]

(***************************************************************************)
(* String.prototype.trim: whitespace removed at both ends.                 *)
(***************************************************************************)
RECURSIVE TrimLeft(_)
TrimLeft(t) == IF t # <<>> /\ Head(t) = " " THEN TrimLeft(Tail(t)) ELSE t
RECURSIVE TrimRight(_)
TrimRight(t) ==
    IF t # <<>> /\ t[Len(t)] = " " THEN TrimRight(SubSeq(t, 1, Len(t) - 1)) ELSE t
\* a trim that forgets the trailing whitespace
TrimStartOnly(t) == TrimLeft(t)
Trim(t) == TrimRight(TrimLeft(t))

(***************************************************************************)
(* The State record and its accessors.                                     *)
(***************************************************************************)
DEFAULTS ==
    [text |-> <<>>, nodes |-> <<>>, marks |-> {}, kind |-> "block",
     rulesSet |-> <<>>, depth |-> 0, props |-> <<>>]

create(rulesSet) == [DEFAULTS EXCEPT !.rulesSet = rulesSet]

rules(s) == IF s.kind \in DOMAIN s.rulesSet THEN s.rulesSet[s.kind] ELSE <<>>

use(s, kind) == [s EXCEPT !.kind = kind]

setProp(s, key, value) ==
    [s EXCEPT !.props = [k \in DOMAIN s.props \cup {key} |->
                            IF k = key THEN value ELSE s.props[k]]]

getProp(s, key) == IF key \in DOMAIN s.props THEN s.props[key] ELSE Undefined

write(s, string) == [s EXCEPT !.text = s.text \o string]

replaceText(s, text) == [s EXCEPT !.text = text]

peek(s) == Head(s.nodes)

shift(s) == [s EXCEPT !.nodes = Tail(s.nodes)]

unshift(s, node) == [s EXCEPT !.nodes = <<node>> \o s.nodes]

\* push(node) with a List argument (concat) ...
push(s, nodes) == [s EXCEPT !.nodes = s.nodes \o nodes]
\* ... and with a single node
pushNode(s, node) == [s EXCEPT !.nodes = Append(s.nodes, node)]

pushMark(s, mark) == [s EXCEPT !.marks = s.marks \cup {mark}]

\* a pushText that forgets the active marks
pushTextUnmarked(s, text) ==
    LET node == TextNode(text, {})
    IN  IF s.kind = "block"
        THEN pushNode(s, BlockNode(BLOCKS_TEXT, <<node>>))
        ELSE pushNode(s, node)

pushText(s, text) ==
    LET node == TextNode(text, s.marks)
    IN  IF s.kind = "block"
        THEN pushNode(s, BlockNode(BLOCKS_TEXT, <<node>>))
        ELSE pushNode(s, node)

up(s) == [s EXCEPT !.depth = s.depth - 1]

\* a down that leaves the depth where it is
downStay(s) == s

down(s) == [s EXCEPT !.depth = s.depth + 1]

skip(s, n) == [s EXCEPT !.text = SubSeq(s.text, n + 1, Len(s.text))]

(***************************************************************************)
(* Rules.  The rule bodies of the concrete syntaxes are not part of the    *)
(* engine; the ones below are the inputs the engine is exercised with.     *)
(*   bold       **x** <-> text x carrying the BOLD mark (decode recurses   *)
(*              into the engine over the captured interior)                *)
(*   textBlock  encode of the block pushText wraps literal text in        *)
(*   text       encode of a text node                                      *)
(*   noop       a malformed rule: hands back the state it was given        *)
(*   stall      a malformed rule: pushes a node and consumes nothing       *)
(*   deserializeHtml, paragraph, strong, serializeDefault: the HTML set    *)
(*   nest       *x* <-> a quote block holding the decoded x; the nested    *)
(*              call runs with the prop "level" raised by one              *)
(*   item       the letter a <-> an item node; decode records the depth    *)
(*              and the props it sees, encode accepts the node only where   *)
(*              it sees the same                                           *)
(*   switch     a block-level decode rule whose only effect is use(inline) *)
(*   echo       a malformed rule: writes text and leaves the node queued   *)
(***************************************************************************)
Rule(name, de, ser) == [name |-> name, deserialize |-> de, serialize |-> ser]

RuleBold == Rule("bold", TRUE, TRUE)
RuleTextBlock == Rule("textBlock", FALSE, TRUE)
RuleText == Rule("text", FALSE, TRUE)
RuleNoop == Rule("noop", TRUE, TRUE)
RuleStall == Rule("stall", TRUE, FALSE)
RuleNest == Rule("nest", TRUE, TRUE)
RuleItem == Rule("item", TRUE, TRUE)
RuleSwitch == Rule("switch", TRUE, FALSE)
RuleEcho == Rule("echo", FALSE, TRUE)
deserializeHtml == Rule("deserializeHtml", TRUE, FALSE)
RuleParagraph == Rule("paragraph", FALSE, TRUE)
RuleStrong == Rule("strong", FALSE, TRUE)
serializeDefault == Rule("serializeDefault", FALSE, TRUE)

blocks == <<RuleParagraph>>
inlines == <<RuleStrong>>

\* the list without its catch-all rule
ALLWithoutDefault == <<deserializeHtml>> \o blocks \o inlines

ALL == <<deserializeHtml>> \o blocks \o inlines \o <<serializeDefault>>

html == [block |-> ALL]

\* number of letters at the front of t
RECURSIVE LetterRun(_)
LetterRun(t) ==
    IF t # <<>> /\ Head(t) \in Letters THEN 1 + LetterRun(Tail(t)) ELSE 0

\* length of the interior x of a leading **x** (x one or more letters), 0 when
\* the text does not start with such a span
BoldMatch(t) ==
    IF Len(t) >= 5 /\ t[1] = "*" /\ t[2] = "*"
    THEN LET n == LetterRun(SubSeq(t, 3, Len(t)))
         IN  IF n >= 1 /\ Len(t) >= n + 4 /\ t[n + 3] = "*" /\ t[n + 4] = "*"
             THEN n ELSE 0
    ELSE 0

\* length of the interior x of a leading *x* reaching to the last * of the text
\* (x not empty), 0 when the text does not start with such a span
NestMatch(t) ==
    LET stars == {j \in 3..Len(t) : t[j] = "*"}
    IN  IF t # <<>> /\ t[1] = "*" /\ stars # {}
        THEN (CHOOSE j \in stars : \A k \in stars : k <= j) - 2
        ELSE 0

\* the prop "level" one nesting further down
Deeper(level) ==
    CASE level = Undefined -> "1"
      [] level = "1" -> "2"
      [] OTHER -> "3"

\* what an item rule reads of the state it runs in
ItemData(s) ==
    [depth |-> s.depth, level |-> getProp(s, "level"), origin |-> getProp(s, "origin")]

ItemNode(s) ==
    [kind |-> "block", type |-> "item", text |-> <<"a">>, marks |-> s.marks,
     nodes |-> <<>>, data |-> ItemData(s)]

RECURSIVE DeserializeRule(_, _), SerializeRule(_, _), forEachRule(_, _, _),
          lex(_, _, _), _serialize(_)

(***************************************************************************)
(* applyRules(kind): the rules carrying the capability, in list order; the *)
(* loop stops at the first result that is not undefined.  An exception     *)
(* thrown inside a rule body leaves applyRules at once.                    *)
(***************************************************************************)
RuleFunctionExec(rule, kind, s) ==
    IF kind = "deserialize" THEN DeserializeRule(rule, s) ELSE SerializeRule(rule, s)

\* a forEach callback that never stops the loop: the last result stands
forEachBodyNoStop(newState, others, kind, s) ==
    IF others = <<>> THEN newState ELSE forEachRule(others, kind, s)

\* the body of the forEach callback, given the rule's result
forEachBody(newState, others, kind, s) ==
    IF newState # None THEN newState ELSE forEachRule(others, kind, s)

forEachRule(rs, kind, s) ==
    IF rs = <<>> THEN None
    ELSE forEachBody(RuleFunctionExec(Head(rs), kind, s), Tail(rs), kind, s)

applyRules(s, kind) ==
    forEachRule(SelectSeq(rules(s), LAMBDA rule : rule[kind]), kind, s)

(***************************************************************************)
(* lex(rest, opts): one call of lex is LexStep; lex is its recursion.      *)
(*   return  the text is empty: the state with the buffer flushed          *)
(*   throw   a rule handed back startState, or an exception passed through *)
(*   skip    no rule matched: one character moves to the buffer            *)
(*   match   a rule matched: lex goes on from its state, with the same rest*)
(***************************************************************************)
LexStartState(s, rst, trim) ==
    LET trimedRest == IF trim THEN Trim(rst) ELSE rst
    IN  IF trimedRest # <<>> THEN pushText(s, trimedRest) ELSE s

\* lex moving on from the flushed state when no rule matched
LexOutcomeFromStart(s, rst, startState, newState) ==
    IF IsError(newState)
    THEN [tag |-> "throw", error |-> newState]
    ELSE IF newState = startState
    THEN [tag |-> "throw", error |-> IdenticalStateError]
    ELSE IF newState = None
    THEN [tag |-> "skip", state |-> skip(startState, 1),
          rest |-> Append(rst, s.text[1])]
    ELSE [tag |-> "match", state |-> newState, rest |-> rst]

\* what lex does with newState, the result of startState.applyRules
LexOutcome(s, rst, startState, newState) ==
    IF IsError(newState)
    THEN [tag |-> "throw", error |-> newState]
    ELSE IF newState = startState
    THEN [tag |-> "throw", error |-> IdenticalStateError]
    ELSE IF newState = None
    THEN [tag |-> "skip", state |-> skip(s, 1), rest |-> Append(rst, s.text[1])]
    ELSE [tag |-> "match", state |-> newState, rest |-> rst]

LexStep(s, rst, trim) ==
    IF s.text = <<>>
    THEN [tag |-> "return", state |-> LexStartState(s, rst, trim)]
    ELSE LexOutcome(s, rst, LexStartState(s, rst, trim),
                    applyRules(LexStartState(s, rst, trim), "deserialize"))

LexContinue(o, trim) ==
    CASE o.tag = "return" -> o.state
      [] o.tag = "throw" -> o.error
      [] OTHER -> lex(o.state, o.rest, trim)

lex(s, rst, trim) == LexContinue(LexStep(s, rst, trim), trim)

\* a deserialize that starts from props of its own
deserializeStartFresh(s, text) ==
    [down(s) EXCEPT !.text = text, !.nodes = <<>>, !.props = <<>>]

\* deserialize(text) up to the final state; deserialize returns its nodes
deserializeStart(s, text) == [down(s) EXCEPT !.text = text, !.nodes = <<>>]

deserializeState(s, text) == lex(deserializeStart(s, text), <<>>, TRUE)

(***************************************************************************)
(* _serialize(): one call is SerStep; _serialize is its recursion.         *)
(***************************************************************************)
\* _serialize dropping a node no rule matched
SerOutcomeDefault(s, state) ==
    IF IsError(state)
    THEN [tag |-> "throw", error |-> state]
    ELSE IF state = None
    THEN [tag |-> "apply", state |-> shift(s)]
    ELSE IF state = s
    THEN [tag |-> "throw", error |-> IdenticalStateError]
    ELSE [tag |-> "apply", state |-> state]

\* _serialize taking a rule that hands back its state for one that passed
SerOutcomeAsNoMatch(s, state) ==
    IF IsError(state)
    THEN [tag |-> "throw", error |-> state]
    ELSE IF state = None \/ state = s
    THEN [tag |-> "throw", error |-> NoRuleError(peek(s))]
    ELSE [tag |-> "apply", state |-> state]

\* what _serialize does with state, the result of this.applyRules
SerOutcome(s, state) ==
    IF IsError(state)
    THEN [tag |-> "throw", error |-> state]
    ELSE IF state = None
    THEN [tag |-> "throw", error |-> NoRuleError(peek(s))]
    ELSE IF state = s
    THEN [tag |-> "throw", error |-> IdenticalStateError]
    ELSE [tag |-> "apply", state |-> state]

SerStep(s) ==
    IF s.nodes = <<>>
    THEN [tag |-> "return", state |-> s]
    ELSE SerOutcome(s, applyRules(s, "serialize"))

SerContinue(o) ==
    CASE o.tag = "return" -> o.state
      [] o.tag = "throw" -> o.error
      [] OTHER -> _serialize(o.state)

_serialize(s) == SerContinue(SerStep(s))

\* a serialize that goes on writing after the text of the receiver
serializeStartKeepText(s, nodes) == [down(s) EXCEPT !.nodes = nodes]

\* serialize(nodes) up to the final state; serialize returns its text
serializeStart(s, nodes) == [down(s) EXCEPT !.text = <<>>, !.nodes = nodes]

serializeState(s, nodes) == _serialize(serializeStart(s, nodes))

(***************************************************************************)
(* The public conversions.  A call either returns a value or throws: the   *)
(* outcome is [returns |-> value] or the Error.                            *)
(***************************************************************************)
\* slate's Document.create({ nodes })
Document(nodes) ==
    [kind |-> "document", type |-> "", text |-> <<>>, marks |-> {}, nodes |-> nodes]

deserialize(s, text) ==
    LET state == deserializeState(s, text)
    IN  IF IsError(state) THEN state ELSE [returns |-> state.nodes]

deserializeToDocument(s, text) ==
    LET nodes == deserialize(s, text)
    IN  IF IsError(nodes) THEN nodes ELSE [returns |-> Document(nodes.returns)]

serialize(s, nodes) ==
    LET state == serializeState(s, nodes)
    IN  IF IsError(state) THEN state ELSE [returns |-> state.text]

serializeNode(s, node) == serialize(s, <<node>>)

\* a wrapper that hands the document itself to the rules
serializeDocumentAsNode(s, document) == serializeNode(s, document)

serializeDocument(s, document) == serialize(s, document.nodes)

(***************************************************************************)
(* The rule bodies.                                                        *)
(***************************************************************************)
\* state.push(nodes).skip(length), nodes the result of the nested deserialize
\* (pushed as they are, or as the children of one quote block)
PushInner(s, inner, length, wrap) ==
    IF IsError(inner) THEN inner
    ELSE IF wrap THEN skip(pushNode(s, BlockNode("quote", inner.nodes)), length)
    ELSE skip(push(s, inner.nodes), length)

\* a span of n characters between delimiters of width w, decoded by a nested
\* deserialize called on the state from
SpanDeserialize(s, from, w, n, wrap) ==
    IF n = 0 THEN None
    ELSE PushInner(s, deserializeState(from, SubSeq(s.text, w + 1, n + w)), n + 2 * w,
                   wrap)

DeserializeRule(rule, s) ==
    CASE rule.name \in {"bold", "nest"} ->
            IF rule.name = "bold"
            THEN SpanDeserialize(s, pushMark(s, BOLD), 2, BoldMatch(s.text), FALSE)
            ELSE SpanDeserialize(s, setProp(s, "level", Deeper(getProp(s, "level"))), 1,
                                 NestMatch(s.text), TRUE)
      [] rule.name = "item" ->
            IF s.text # <<>> /\ Head(s.text) = "a"
            THEN skip(pushNode(s, ItemNode(s)), 1) ELSE None
      [] rule.name = "switch" ->
            IF s.kind = "block" THEN use(s, "inline") ELSE None
      [] rule.name = "noop" ->
            IF s.text # <<>> /\ Head(s.text) = "a" THEN s ELSE None
      [] rule.name = "stall" ->
            IF s.text # <<>> /\ Head(s.text) = "a"
            THEN pushNode(s, TextNode(<<"a">>, s.marks)) ELSE None
      [] rule.name = "deserializeHtml" ->
            skip(pushNode(s, BlockNode("paragraph", <<TextNode(s.text, s.marks)>>)),
                 Len(s.text))
      [] OTHER -> None

\* state.write(open + inner + close).shift(), inner the nested serialize
WriteInner(s, inner, open, close) ==
    IF IsError(inner) THEN inner
    ELSE shift(write(s, open \o inner.text \o close))

\* the children of the node serialized by a nested serialize called on from
WriteChildren(s, from, node, open, close) ==
    WriteInner(s, serializeState(from, node.nodes), open, close)

SerializeNode(rule, s, node) ==
    CASE rule.name = "bold" ->
            IF node.kind = "text" /\ BOLD \in node.marks
            THEN shift(write(s, <<"*", "*">> \o node.text \o <<"*", "*">>))
            ELSE None
      [] rule.name = "text" ->
            IF node.kind = "text" THEN shift(write(s, node.text)) ELSE None
      [] rule.name = "noop" ->
            IF node.kind = "text" /\ Head(node.text) = "*" THEN s ELSE None
      [] rule.name = "strong" ->
            IF node.kind = "text" /\ BOLD \in node.marks
            THEN shift(write(s, <<"<b>">> \o node.text \o <<"</b>">>))
            ELSE None
      [] rule.name = "item" ->
            IF node.kind = "block" /\ node.type = "item" /\ node.data = ItemData(s)
            THEN shift(write(s, node.text)) ELSE None
      [] rule.name = "echo" ->
            IF node.kind = "block" /\ node.type = BLOCKS_TEXT
            THEN write(s, <<"a">>) ELSE None
      [] rule.name = "nest" /\ ~(node.kind = "block" /\ node.type = "quote") ->
            None
      [] rule.name = "serializeDefault" /\ node.kind = "text" ->
            shift(write(s, node.text))
      [] rule.name = "paragraph" /\ ~(node.kind = "block" /\ node.type = "paragraph") ->
            None
      [] rule.name = "textBlock" /\ ~(node.kind = "block" /\ node.type = BLOCKS_TEXT) ->
            None
      [] rule.name \in {"serializeDefault", "textBlock", "paragraph", "nest"} ->
            WriteChildren(s,
                          IF rule.name = "nest"
                          THEN setProp(s, "level", Deeper(getProp(s, "level"))) ELSE s,
                          node,
                          CASE rule.name = "paragraph" -> <<"<p>">>
                            [] rule.name = "nest" -> <<"*">>
                            [] OTHER -> <<>>,
                          CASE rule.name = "paragraph" -> <<"</p>">>
                            [] rule.name = "nest" -> <<"*">>
                            [] OTHER -> <<>>)
      [] OTHER -> None

SerializeRule(rule, s) == SerializeNode(rule, s, peek(s))

(***************************************************************************)
(* The rule-set tables the conversions are run with.                       *)
(***************************************************************************)
Both(list) == [block |-> list, inline |-> list]

EmptyTable == [block |-> <<>>]
Markdown == Both(<<RuleBold, RuleTextBlock, RuleText>>)
BoldOnly == Both(<<RuleBold, RuleTextBlock>>)
Faulty == Both(<<RuleBold, RuleNoop, RuleTextBlock, RuleText>>)
Stalling == Both(<<RuleStall, RuleTextBlock, RuleText>>)

Tables == {EmptyTable, Markdown, BoldOnly, Faulty, Stalling, html}

Nesting == Both(<<RuleNest, RuleItem, RuleTextBlock, RuleText>>)
Switching == [block |-> <<RuleSwitch>>, inline |-> <<RuleBold, RuleText>>]
Echoing == Both(<<RuleBold, RuleEcho, RuleTextBlock, RuleText>>)

OpsTables == Tables \cup {Nesting, Switching, Echoing}

(***************************************************************************)
(* The conversions, one lex / _serialize call per step:                    *)
(*   deserialize(input), serialize of its nodes, deserialize of that text. *)
(***************************************************************************)
Init ==
    /\ base \in {create(t) : t \in Tables} \cup {use(create(t), "inline") : t \in Tables}
    /\ input \in Texts
    /\ pc = "ready"
    /\ phase = 0
    /\ st = base
    /\ rest = <<>>
    /\ steps = 0
    /\ shrunk = TRUE
    /\ first = <<>>
    /\ out = <<>>
    /\ second = <<>>
    /\ err = NoError
    /\ written = <<>>
    /\ conv = <<>>
    /\ mr = <<>>

\* a deserialize that works on the receiver in place
DeserializeInPlace ==
    /\ pc \in {"ready", "encoded"}
    /\ st' = deserializeStart(base, IF pc = "ready" THEN input ELSE out)
    /\ base' = st'
    /\ rest' = <<>>
    /\ steps' = 0
    /\ shrunk' = TRUE
    /\ phase' = phase + 1
    /\ pc' = "lex"
    /\ UNCHANGED <<input, first, out, second, err, written, conv, mr>>

\* deserialize(text): down, merge of text and an empty node list, lex()
Deserialize ==
    /\ pc \in {"ready", "encoded"}
    /\ st' = deserializeStart(base, IF pc = "ready" THEN input ELSE out)
    /\ rest' = <<>>
    /\ steps' = 0
    /\ shrunk' = TRUE
    /\ phase' = phase + 1
    /\ pc' = "lex"
    /\ UNCHANGED <<base, input, first, out, second, err, written, conv, mr>>

\* lex with no text left: deserialize returns the nodes of the flushed state
LexReturn ==
    /\ pc = "lex"
    /\ LET o == LexStep(st, rest, TRUE)
       IN  /\ o.tag = "return"
           /\ st' = o.state
           /\ IF phase = 1
              THEN first' = o.state.nodes /\ pc' = "decoded" /\ UNCHANGED second
              ELSE second' = o.state.nodes /\ pc' = "done" /\ UNCHANGED first
    /\ UNCHANGED <<base, input, phase, rest, steps, shrunk, out, err, written, conv, mr>>

\* lex throws: a rule handed back startState, or a rule body threw
LexThrow ==
    /\ pc = "lex"
    /\ LET o == LexStep(st, rest, TRUE)
       IN  /\ o.tag = "throw"
           /\ err' = o.error
    /\ steps' = steps + 1
    /\ pc' = "error"
    /\ UNCHANGED <<base, input, phase, st, rest, shrunk, first, out, second, written, conv, mr>>

\* lex going on without skipping the unmatched character
LexSkipNoAdvance ==
    /\ pc = "lex"
    /\ LexStep(st, rest, TRUE).tag = "skip"
    /\ rest' = LexStep(st, rest, TRUE).rest
    /\ steps' = steps + 1
    /\ UNCHANGED <<base, input, pc, phase, st, shrunk, first, out, second, err,
                   written, conv, mr>>

\* no rule matched: state.skip(1).lex(rest + text[0], opts)
LexSkip ==
    /\ pc = "lex"
    /\ LET o == LexStep(st, rest, TRUE)
       IN  /\ o.tag = "skip"
           /\ st' = o.state
           /\ rest' = o.rest
    /\ steps' = steps + 1
    /\ UNCHANGED <<base, input, pc, phase, shrunk, first, out, second, err, written, conv, mr>>

\* lex going on from the flushed state, whatever the matching rule returned
LexMatchFromStart ==
    /\ pc = "lex"
    /\ LexStep(st, rest, TRUE).tag = "match"
    /\ steps < MaxSteps
    /\ st' = LexStartState(st, rest, TRUE)
    /\ steps' = steps + 1
    /\ UNCHANGED <<base, input, pc, phase, rest, shrunk, first, out, second, err,
                   written, conv, mr>>

\* a rule matched: newState.lex(rest, opts)
LexMatch ==
    /\ pc = "lex"
    /\ LET o == LexStep(st, rest, TRUE)
       IN  /\ o.tag = "match"
           /\ steps < MaxSteps \/ Len(o.state.text) < Len(st.text)
           /\ st' = o.state
           /\ rest' = o.rest
           /\ shrunk' = (shrunk /\ Len(o.state.text) < Len(st.text))
    /\ steps' = steps + 1
    /\ UNCHANGED <<base, input, pc, phase, first, out, second, err, written, conv, mr>>

\* what a rule application added to the text buffer: the new text after the old
Appended(old, new) ==
    IF Len(new) >= Len(old) /\ SubSeq(new, 1, Len(old)) = old
    THEN SubSeq(new, Len(old) + 1, Len(new))
    ELSE <<"replaced">> \o new

\* serialize(nodes): down, merge of an empty text and the nodes, _serialize()
Serialize ==
    /\ pc = "decoded"
    /\ st' = serializeStart(base, first)
    /\ steps' = 0
    /\ phase' = 2
    /\ pc' = "ser"
    /\ written' = <<>>
    /\ UNCHANGED <<base, input, rest, shrunk, first, out, second, err, conv, mr>>

\* _serialize with an empty queue: serialize returns the text
SerReturn ==
    /\ pc = "ser"
    /\ LET o == SerStep(st)
       IN  /\ o.tag = "return"
           /\ out' = o.state.text
    /\ pc' = "encoded"
    /\ UNCHANGED <<base, input, phase, st, rest, steps, shrunk, first, second, err,
                   written, conv, mr>>

\* _serialize throws: no rule matched, identical state, or a rule body threw
SerThrow ==
    /\ pc = "ser"
    /\ LET o == SerStep(st)
       IN  /\ o.tag = "throw"
           /\ err' = o.error
    /\ steps' = steps + 1
    /\ pc' = "error"
    /\ UNCHANGED <<base, input, phase, st, rest, shrunk, first, out, second, written, conv, mr>>

\* _serialize going on from its own state, whatever the matching rule returned
SerApplySame ==
    /\ pc = "ser"
    /\ SerStep(st).tag = "apply"
    /\ steps < MaxSteps
    /\ written' = Append(written, <<>>)
    /\ steps' = steps + 1
    /\ UNCHANGED <<base, input, pc, phase, st, rest, shrunk, first, out, second, err,
                   conv, mr>>

\* a rule matched the front node: state._serialize()
SerApply ==
    /\ pc = "ser"
    /\ LET o == SerStep(st)
       IN  /\ o.tag = "apply"
           /\ steps < MaxSteps \/ Len(o.state.nodes) < Len(st.nodes)
           /\ st' = o.state
           /\ written' = Append(written, Appended(st.text, o.state.text))
    /\ steps' = steps + 1
    /\ UNCHANGED <<base, input, pc, phase, rest, shrunk, first, out, second, err, conv, mr>>

Next ==
    \/ Deserialize
    \/ LexReturn
    \/ LexThrow
    \/ LexSkip
    \/ LexMatch
    \/ Serialize
    \/ SerReturn
    \/ SerThrow
    \/ SerApply

Spec == Init /\ [][Next]_vars

(***************************************************************************)
(* Two top-level conversions called on the same State, their lex and       *)
(* _serialize calls interleaved in any order.  Each conversion owns the    *)
(* State values its calls return; base and its rulesSet are what they share.*)
(***************************************************************************)
ParBases ==
    {create(Markdown), use(create(Markdown), "inline"), create(Faulty), create(html)}

\* node lists to serialize: what deserialize makes of the texts
ParNodes ==
    {deserializeState(b, t).nodes :
        b \in {create(Markdown), use(create(Markdown), "inline")}, t \in ParTexts}

ParCall(s, mode, arg) ==
    [mode |-> mode, arg |-> arg, pc |-> "ready", st |-> s, rest |-> <<>>,
     result |-> None]

ParCalls(s) ==
    {ParCall(s, "deserialize", t) : t \in ParTexts}
        \cup {ParCall(s, "serialize", ns) : ns \in ParNodes}

InitPar ==
    /\ base \in ParBases
    /\ conv \in [{1, 2} -> ParCalls(base)]
    /\ input = <<>>
    /\ pc = "ready"
    /\ phase = 0
    /\ st = base
    /\ rest = <<>>
    /\ steps = 0
    /\ shrunk = TRUE
    /\ first = <<>>
    /\ out = <<>>
    /\ second = <<>>
    /\ err = NoError
    /\ written = <<>>
    /\ mr = <<>>

\* the conversion record after one call of lex
ParAfterLex(c, o) ==
    CASE o.tag = "return" ->
            [c EXCEPT !.st = o.state, !.pc = "done", !.result = [nodes |-> o.state.nodes]]
      [] o.tag = "throw" -> [c EXCEPT !.pc = "done", !.result = o.error]
      [] OTHER -> [c EXCEPT !.st = o.state, !.rest = o.rest]

\* the conversion record after one call of _serialize
ParAfterSer(c, o) ==
    CASE o.tag = "return" -> [c EXCEPT !.pc = "done", !.result = [text |-> o.state.text]]
      [] o.tag = "throw" -> [c EXCEPT !.pc = "done", !.result = o.error]
      [] OTHER -> [c EXCEPT !.st = o.state]

\* conversion i enters deserialize(text) or serialize(nodes) on base
ParStart(i) ==
    /\ conv[i].pc = "ready"
    /\ conv' = [conv EXCEPT
                  ![i].st = IF conv[i].mode = "deserialize"
                            THEN deserializeStart(base, conv[i].arg)
                            ELSE serializeStart(base, conv[i].arg),
                  ![i].pc = "run"]
    /\ UNCHANGED <<base, input, pc, phase, st, rest, steps, shrunk, first, out, second,
                   err, written, mr>>

\* one call of lex in which the pending buffer is a single slot of the module
ParLexShared(i) ==
    /\ conv[i].pc = "run"
    /\ conv[i].mode = "deserialize"
    /\ LET c == ParAfterLex(conv[i], LexStep(conv[i].st, conv[i].rest, TRUE))
       IN  conv' = [j \in {1, 2} |-> IF j = i THEN c ELSE [conv[j] EXCEPT !.rest = c.rest]]
    /\ UNCHANGED <<base, input, pc, phase, st, rest, steps, shrunk, first, out, second,
                   err, written, mr>>

\* one call of lex of conversion i
ParLex(i) ==
    /\ conv[i].pc = "run"
    /\ conv[i].mode = "deserialize"
    /\ conv' = [conv EXCEPT
                  ![i] = ParAfterLex(conv[i], LexStep(conv[i].st, conv[i].rest, TRUE))]
    /\ UNCHANGED <<base, input, pc, phase, st, rest, steps, shrunk, first, out, second,
                   err, written, mr>>

\* one call of _serialize of conversion i
ParSer(i) ==
    /\ conv[i].pc = "run"
    /\ conv[i].mode = "serialize"
    /\ conv' = [conv EXCEPT ![i] = ParAfterSer(conv[i], SerStep(conv[i].st))]
    /\ UNCHANGED <<base, input, pc, phase, st, rest, steps, shrunk, first, out, second,
                   err, written, mr>>

NextPar ==
    \/ \E i \in {1, 2} : ParStart(i)
    \/ \E i \in {1, 2} : ParLex(i)
    \/ \E i \in {1, 2} : ParSer(i)

SpecPar == InitPar /\ [][NextPar]_vars

(***************************************************************************)
(* matchRule(state, rule, text) of src/lib/parse/matchRule.js.  A rule is  *)
(* given by its type and by what its onText returns for the state and the  *)
(* text of the call: a falsy value, one match object, an Array of matches  *)
(* or an Immutable List of matches.  A match may carry a type; an empty    *)
(* type is falsy like a missing one.                                       *)
(***************************************************************************)
MatchTypes == {"", "em"}
MatchRaws == {"x", "y"}
RuleTypes == {"paragraph", "text"}

Matches == [raw : MatchRaws] \cup [type : MatchTypes, raw : MatchRaws]

Falsy == {[shape |-> "undefined"], [shape |-> "null"], [shape |-> "false"]}

OnTextResults ==
    Falsy \cup {[shape |-> "object", match |-> m] : m \in Matches}
          \cup {[shape |-> sh, items |-> ms] :
                    sh \in {"Array", "List"}, ms \in SeqsUpTo(Matches, MaxMatches)}

ParseRule(type, onText) == [type |-> type, onText |-> onText]

\* Token.create(type, data)
Token(type, data) == [type |-> type, data |-> data]

\* match.type || ruleType
TypeOr(match, ruleType) ==
    IF "type" \in DOMAIN match /\ match.type # "" THEN match.type ELSE ruleType

\* a matchRule that lets the type of the rule stand before the match's own
matchRuleRuleTyped(state, rule, text) ==
    IF rule.onText \in Falsy THEN None
    ELSE LET matches == IF rule.onText.shape \notin {"Array", "List"}
                        THEN <<rule.onText.match>> ELSE rule.onText.items
         IN  [List |-> [i \in DOMAIN matches |-> Token(rule.type, matches[i])]]

\* the result: None for `return;`, [List |-> tokens] for the Immutable List
matchRule(state, rule, text) ==
    IF rule.onText \in Falsy THEN None
    ELSE LET matches == IF rule.onText.shape \notin {"Array", "List"}
                        THEN <<rule.onText.match>> ELSE rule.onText.items
         IN  [List |-> [i \in DOMAIN matches |->
                          Token(TypeOr(matches[i], rule.type), matches[i])]]

InitMatch ==
    /\ mr \in {[rule |-> ParseRule(t, r), pc |-> "call", result |-> None] :
                  t \in RuleTypes, r \in OnTextResults}
    /\ base = create(EmptyTable)
    /\ conv = <<>>
    /\ input = <<>>
    /\ pc = "ready"
    /\ phase = 0
    /\ st = base
    /\ rest = <<>>
    /\ steps = 0
    /\ shrunk = TRUE
    /\ first = <<>>
    /\ out = <<>>
    /\ second = <<>>
    /\ err = NoError
    /\ written = <<>>

MatchRule ==
    /\ mr.pc = "call"
    /\ mr' = [mr EXCEPT !.pc = "returned", !.result = matchRule(st, mr.rule, input)]
    /\ UNCHANGED <<base, input, pc, phase, st, rest, steps, shrunk, first, out, second,
                   err, written, conv>>

NextMatch == MatchRule

SpecMatch == InitMatch /\ [][NextMatch]_vars

(***************************************************************************)
(* The same conversions, called on a State the caller has operated on      *)
(* first: up, down, setProp, replaceText, pushMark, pushText.              *)
(***************************************************************************)
InitOps ==
    /\ base \in {create(t) : t \in OpsTables} \cup {use(create(t), "inline") : t \in OpsTables}
    /\ input \in OpsTexts
    /\ pc = "ready"
    /\ phase = 0
    /\ st = base
    /\ rest = <<>>
    /\ steps = 0
    /\ shrunk = TRUE
    /\ first = <<>>
    /\ out = <<>>
    /\ second = <<>>
    /\ err = NoError
    /\ written = <<>>
    /\ conv = <<>>
    /\ mr = <<>>

\* the receiver replaced by the State an operation returns
Operate(s) ==
    /\ pc = "ready"
    /\ base' = s
    /\ st' = s
    /\ UNCHANGED <<input, pc, phase, rest, steps, shrunk, first, out, second, err,
                   written, conv, mr>>

Up == base.depth > -MaxDepth /\ Operate(up(base))

Down == base.depth < MaxDepth /\ Operate(down(base))

SetProp == getProp(base, "origin") = Undefined /\ Operate(setProp(base, "origin", "r"))

ReplaceText == base.text = <<>> /\ Operate(replaceText(base, <<"a", "*">>))

PushMark == base.marks = {} /\ Operate(pushMark(base, BOLD))

PushText == base.nodes = <<>> /\ Operate(pushText(base, <<"b">>))

NextOps ==
    \/ Next
    \/ Up
    \/ Down
    \/ SetProp
    \/ ReplaceText
    \/ PushMark
    \/ PushText

SpecOps == InitOps /\ [][NextOps]_vars

(***************************************************************************)
(* Definitions shared by the properties.                                   *)
(***************************************************************************)
\* the text given to the running (or last) deserialize
LexInput == IF phase = 3 THEN out ELSE input

\* the node pushText makes for a literal text under the given kind and marks
LiteralNode(kind, text, marks) ==
    IF kind = "block"
    THEN BlockNode(BLOCKS_TEXT, <<TextNode(text, marks)>>)
    ELSE TextNode(text, marks)

\* the text without its leading and trailing spaces, by positions
Stripped(t) ==
    LET solid == {i \in DOMAIN t : t[i] # " "}
    IN  IF solid = {} THEN <<>>
        ELSE SubSeq(t, CHOOSE i \in solid : \A j \in solid : i <= j,
                       CHOOSE i \in solid : \A j \in solid : j <= i)

\* the literal text a node stands for: a text node, or the block around one
LiteralContent(node) ==
    IF node.kind = "text" THEN node.text
    ELSE IF Len(node.nodes) = 1 THEN node.nodes[1].text ELSE <<>>

\* no rule of the active list has a deserialize function
NoDecodeRule(s) == \A i \in DOMAIN rules(s) : ~rules(s)[i].deserialize

\* every deserialize function of the active list returns undefined on s
NoDecodeMatch(s) ==
    \A i \in DOMAIN rules(s) :
        rules(s)[i].deserialize => DeserializeRule(rules(s)[i], s) = None

\* every serialize function of the active list returns undefined on s
NoEncodeMatch(s) ==
    \A i \in DOMAIN rules(s) :
        rules(s)[i].serialize => SerializeRule(rules(s)[i], s) = None

(***************************************************************************)
(* C1: when a decode rule matches while the pending buffer is non-empty,   *)
(* the buffer is flushed as one literal text node, carrying the state's    *)
(* marks, right before the nodes of the match, and the buffer is empty     *)
(* afterwards, so that no flushed character is emitted a second time.      *)
(***************************************************************************)
C1_FlushedOnce ==
    [][(/\ pc = "lex" /\ pc' = "lex"
        /\ st.text # <<>>
        /\ Stripped(rest) # <<>>
        /\ ~NoDecodeMatch(LexStartState(st, rest, TRUE)))
       => (/\ Len(st'.nodes) > Len(st.nodes)
           /\ st'.nodes[Len(st.nodes) + 1] = LiteralNode(st.kind, Stripped(rest), st.marks)
           /\ rest' = <<>>)]_vars

(***************************************************************************)
(* C2: with an empty decode rule list, deserialize(text) yields exactly    *)
(* one literal text node whose content equals text, for every text.        *)
(***************************************************************************)
C2_DegradeToText ==
    (pc = "decoded" /\ NoDecodeRule(base))
        => (Len(first) = 1 /\ LiteralContent(first[1]) = input)

\* C2 as amended: the one node holds the text without its leading and trailing
\* whitespace (inside a text block when the state's kind is "block"), and there
\* is no node at all when nothing but whitespace is given.
C2_DegradeToTrimmedText ==
    (pc = "decoded" /\ NoDecodeRule(base))
        => first = IF Stripped(input) = <<>> THEN <<>>
                   ELSE <<LiteralNode(base.kind, Stripped(input), {})>>

C2_Witness ==
    /\ pc = "decoded"
    /\ NoDecodeRule(base)
    /\ Len(first) = 1
    /\ Len(LiteralContent(first[1])) = 3
    /\ Len(input) = 5

(***************************************************************************)
(* C3: when no decode rule matches at the front of a non-empty remaining   *)
(* text, lex raises nothing: one character moves from the front of the     *)
(* text to the end of the pending buffer, the nodes, marks, props, rule    *)
(* set key and depth stay as they are, and lex runs again.                 *)
(***************************************************************************)
C3_NoMatchMovesOneChar ==
    [][(/\ pc = "lex"
        /\ st.text # <<>>
        /\ NoDecodeMatch(LexStartState(st, rest, TRUE)))
       => (/\ pc' = "lex"
           /\ err' = NoError
           /\ st' = [st EXCEPT !.text = Tail(st.text)]
           /\ rest' = Append(rest, Head(st.text)))]_vars

C3_Witness ==
    /\ pc = "lex"
    /\ base.rulesSet = Markdown
    /\ input = <<"*", "*", "a", "*", "*", "b">>
    /\ Len(st.nodes) = 1
    /\ rest = <<"b">>
    /\ st.text = <<>>


(***************************************************************************)
(* C4: for any text of length n and any rule set, deserialize ends after   *)
(* a number of rule-list attempts bounded by a linear function of n: every *)
(* attempt advances by at least one character, so there are at most n.     *)
(***************************************************************************)
C4_LinearSteps ==
    (phase \in {1, 3} /\ pc \in {"lex", "decoded", "done", "error"})
        => steps <= Len(LexInput)

\* C4 as amended: as long as every match lex accepted came with a shorter
\* remaining text, the attempts made and the characters left add up to at most
\* n, so such a deserialize ends within n attempts.
C4_LinearStepsWhenConsuming ==
    (phase \in {1, 3} /\ shrunk)
        => /\ pc = "lex" => steps + Len(st.text) <= Len(LexInput)
           /\ pc \in {"decoded", "done", "error"} => steps <= Len(LexInput)

\* one match and one skip: two attempts for six characters
C4_Witness ==
    /\ pc = "decoded"
    /\ base.rulesSet = Markdown
    /\ input = <<"*", "*", "a", "*", "*", "b">>
    /\ shrunk
    /\ steps = 2
    /\ Len(first) = 2

(***************************************************************************)
(* C5: a decode rule that returns the state it was given makes deserialize *)
(* raise, without another attempt, a named progress error that identifies  *)
(* the offending rule.                                                     *)
(***************************************************************************)
\* the rules of the active list whose deserialize hands s back
IdenticalRules(s) ==
    {i \in DOMAIN rules(s) :
        rules(s)[i].deserialize /\ DeserializeRule(rules(s)[i], s) = s}

C5_ProgressErrorNamesRule ==
    [][(/\ pc = "lex"
        /\ st.text # <<>>
        /\ IdenticalRules(LexStartState(st, rest, TRUE)) # {}
        /\ \A i \in DOMAIN rules(st) :
              ~IsError(RuleFunctionExec(rules(st)[i], "deserialize",
                                        LexStartState(st, rest, TRUE))))
       => (/\ pc' = "error"
           /\ \E i \in IdenticalRules(LexStartState(st, rest, TRUE)) :
                 rules(st)[i].name \in Range(err'.message))]_vars

(***************************************************************************)
(* C6: when no encode rule of the active list matches the front node of a  *)
(* non-empty queue, serialize raises the totality error at that node: no   *)
(* text is returned, no default output stands in, the later nodes are left *)
(* alone, and the error names the kind and the type of the front node.     *)
(***************************************************************************)
C6_TotalityError ==
    [][(pc = "ser" /\ st.nodes # <<>> /\ NoEncodeMatch(st))
       => (/\ pc' = "error"
           /\ err' = [message |-> <<"No rule match node ", Head(st.nodes).kind,
                                    "#", Head(st.nodes).type>>]
           /\ out' = out
           /\ st' = st)]_vars

C6_Witness ==
    /\ pc = "error"
    /\ phase = 2
    /\ err = [message |-> <<"No rule match node ", "text", "#", "">>]
    /\ st.text # <<>>
    /\ Len(first) = 2
    /\ Len(st.nodes) = 1
    /\ out = <<>>

(***************************************************************************)
(* C7: applyRules(capability) returns the result of the first rule, in the *)
(* order of the active list, that has the capability and returns something;*)
(* rules without the capability are skipped, rules after the first match   *)
(* have no say, and the result is undefined exactly when every capable     *)
(* rule returns undefined (also when the active key has no rule list).     *)
(***************************************************************************)
FirstMatch(s, kind, result) ==
    LET rs == IF s.kind \in DOMAIN s.rulesSet THEN s.rulesSet[s.kind] ELSE <<>>
        hits == {i \in DOMAIN rs :
                    rs[i][kind] /\ RuleFunctionExec(rs[i], kind, s) # None}
    IN  IF hits = {} THEN result = None
        ELSE \E i \in hits :
                /\ \A j \in hits : i <= j
                /\ result = RuleFunctionExec(rs[i], kind, s)

C7_FirstMatchWins ==
    /\ (pc = "lex" /\ st.text # <<>>)
          => FirstMatch(LexStartState(st, rest, TRUE), "deserialize",
                        applyRules(LexStartState(st, rest, TRUE), "deserialize"))
    /\ (pc = "ser" /\ st.nodes # <<>>)
          => FirstMatch(st, "serialize", applyRules(st, "serialize"))

\* both bold and text match the front node, and bold, the earlier one, wins
C7_Witness ==
    /\ pc = "ser"
    /\ base = use(create(Markdown), "inline")
    /\ st.nodes # <<>>
    /\ BOLD \in Head(st.nodes).marks
    /\ applyRules(st, "serialize") = SerializeRule(RuleBold, st)
    /\ SerializeRule(RuleText, st) # None
    /\ SerializeRule(RuleText, st) # SerializeRule(RuleBold, st)


(***************************************************************************)
(* C8: for any text T and paired decode/encode rule sets,                  *)
(* deserialize(serialize(deserialize(T))) equals deserialize(T).           *)
(***************************************************************************)
\* the tables whose encode rules write what their decode rules read
Paired == {Markdown}

C8_Stability ==
    (pc = "done" /\ base.rulesSet \in Paired) => second = first

(***************************************************************************)
(* C9: decoding "**a**b" with an emphasis rule yields two nodes, the text  *)
(* "a" carrying the emphasis mark and the text "b" carrying none; a mark   *)
(* pushed for a nested decode is carried only by the text created inside   *)
(* that decode, never by nodes pushed before it nor by text created after  *)
(* it has returned.                                                        *)
(***************************************************************************)
\* the text node a top-level node of a result stands for
LeafOf(node) == IF node.kind = "text" THEN node ELSE node.nodes[1]

\* t holds **text** somewhere
InsideSpan(t, text) ==
    \E i \in DOMAIN t :
        /\ i + Len(text) + 3 <= Len(t)
        /\ SubSeq(t, i, i + Len(text) + 3) = <<"*", "*">> \o text \o <<"*", "*">>

HasBold(s) == \E i \in DOMAIN rules(s) : rules(s)[i] = RuleBold

C9_Example ==
    (pc = "decoded" /\ HasBold(base) /\ input = <<"*", "*", "a", "*", "*", "b">>)
        => first = <<LiteralNode(base.kind, <<"a">>, {BOLD}),
                     LiteralNode(base.kind, <<"b">>, {})>>

C9_MarksNotLeaked ==
    (pc = "lex" /\ phase = 1) => st.marks = base.marks

C9_MarkScoping ==
    /\ []C9_Example
    /\ []C9_MarksNotLeaked
    /\ [](pc = "decoded" /\ HasBold(base)
            => \A i \in DOMAIN first :
                  /\ LeafOf(first[i]).marks \subseteq {BOLD}
                  /\ BOLD \in LeafOf(first[i]).marks
                        => InsideSpan(input, LeafOf(first[i]).text))
    /\ [][(pc = "lex" /\ pc' = "lex")
            => (/\ Len(st'.nodes) >= Len(st.nodes)
                /\ SubSeq(st'.nodes, 1, Len(st.nodes)) = st.nodes)]_vars

C9_Witness ==
    /\ pc = "decoded"
    /\ base = use(create(Markdown), "inline")
    /\ input = <<"*", "*", "a", "*", "*", "b">>
    /\ Len(first) = 2
    /\ first[1].marks = {BOLD}
    /\ first[2].marks = {}

(***************************************************************************)
(* C10: for the nodes deserialize produces under a rule set, serialize     *)
(* under the paired rule set never raises the totality error; for the HTML *)
(* rule set the catch-all rule serializeDefault is in the active list,     *)
(* after every other rule, whenever the encode loop runs.                  *)
(***************************************************************************)
IsTotalityError(e) == IsError(e) /\ e.message[1] = "No rule match node "

Alone(s, mode, arg) ==
    IF mode = "deserialize"
    THEN LET r == deserializeState(s, arg)
         IN  IF IsError(r) THEN r ELSE [nodes |-> r.nodes]
    ELSE LET r == serializeState(s, arg)
         IN  IF IsError(r) THEN r ELSE [text |-> r.text]

\* a step of conversion i was taken
ParStepOf(i) == conv'[i] # conv[i]

\* C11: two conversions started from the same State and interleaved step by
\* step each end with the result they give alone; a step of one changes neither
\* the State they were called on (its rule-set table included) nor anything of
\* the other conversion.
C11_Independent ==
    /\ [](\A i \in DOMAIN conv :
            conv[i].pc = "done" => conv[i].result = Alone(base, conv[i].mode, conv[i].arg))
    /\ [][/\ base' = base
          /\ \A i \in DOMAIN conv :
                ParStepOf(i) => \A j \in DOMAIN conv \ {i} : conv'[j] = conv[j]]_vars

\* both conversions done, one a deserialize and one a serialize, both with
\* nested calls behind them, after steps of the one between steps of the other
C11_Witness ==
    /\ DOMAIN conv = {1, 2}
    /\ conv[1].pc = "done" /\ conv[2].pc = "done"
    /\ conv[1].mode = "deserialize" /\ conv[2].mode = "serialize"
    /\ conv[1].arg = <<"b", "*", "*", "a", "*", "*">>
    /\ "nodes" \in DOMAIN conv[1].result /\ Len(conv[1].result.nodes) = 3
    /\ "text" \in DOMAIN conv[2].result /\ Len(conv[2].result.text) >= 5

(***************************************************************************)
(* C12                                                                     *)
(***************************************************************************)
RECURSIVE Flatten(_)
Flatten(pieces) == IF pieces = <<>> THEN <<>> ELSE Head(pieces) \o Flatten(Tail(pieces))

\* C12: serialize applies rules until the node queue is empty and returns the
\* texts its rule applications appended, joined in the order of application,
\* from an empty buffer whatever text the receiver holds; for an empty node
\* sequence it returns the empty text and asks no rule.
C12_Concatenation ==
    /\ pc = "ser" => st.text = Flatten(written)
    /\ pc = "encoded" =>
          /\ st.nodes = <<>>
          /\ out = Flatten(written)
          /\ Len(written) = steps
          /\ first = <<>> => out = <<>> /\ steps = 0

\* a serialize of two nodes or more, called on a State holding text, returned
C12_Witness ==
    /\ pc = "encoded"
    /\ base.text # <<>>
    /\ Len(first) >= 2
    /\ Len(written) = Len(first)
    /\ out # <<>>

(***************************************************************************)
(* C13                                                                     *)
(***************************************************************************)
\* C13: deserializeToDocument(text) gives a root document whose children are
\* the nodes of deserialize(text), in their order, and serializeDocument gives
\* for a document the text of serialize(document.nodes); a wrapper throws what
\* the conversion it wraps throws.
C13_Wrappers ==
    /\ pc = "decoded" =>
          /\ deserializeToDocument(base, input) = [returns |-> Document(first)]
          /\ Document(first).nodes = first
    /\ pc = "encoded" =>
          /\ serializeDocument(base, Document(first)) = [returns |-> out]
          /\ serializeDocument(base, Document(first)) = serialize(base, first)
    /\ pc = "error" /\ phase = 1 => deserializeToDocument(base, input) = err
    /\ pc = "error" /\ phase = 2 => serializeDocument(base, Document(first)) = err

\* a document of two children or more was serialized to a text that is not empty
C13_Witness ==
    /\ pc = "encoded"
    /\ Len(first) >= 2
    /\ out # <<>>
    /\ deserializeToDocument(base, input).returns.kind = "document"
    /\ Len(deserializeToDocument(base, input).returns.nodes) = Len(first)

(***************************************************************************)
(* C14                                                                     *)
(***************************************************************************)
\* a call of lex that neither returned nor threw: lex goes on
LexAccepted == pc = "lex" /\ pc' = "lex" /\ steps' = steps + 1

SerAccepted == pc = "ser" /\ pc' = "ser" /\ steps' = steps + 1

RECURSIVE ItemsAtDepth(_, _)
ItemsAtDepth(nodes, d) ==
    \A i \in DOMAIN nodes :
        /\ nodes[i].type = "item" => nodes[i].data.depth = d
        /\ nodes[i].type = "quote" => ItemsAtDepth(nodes[i].nodes, d + 1)

\* the result of the last deserialize that returned
Decoded == IF pc = "done" THEN second ELSE first

\* C16 as claimed: depth is never negative and is the number of deserialize /
\* serialize calls in progress: 0 outside a conversion, 1 in a top-level call,
\* one more in each nested call.
C16_DepthMirrorsCalls ==
    /\ base.depth >= 0
    /\ st.depth >= 0
    /\ pc = "ready" => base.depth = 0
    /\ pc \in {"lex", "ser"} => st.depth = 1
    /\ pc \in {"decoded", "encoded", "done"} => ItemsAtDepth(Decoded, 1)

\* C16: the depth of the state a deserialize or serialize call runs on is the
\* depth of the state it was called on plus one, so in a conversion it is the
\* receiver's depth plus the number of calls in progress, and the caller's own
\* state keeps its depth; up() and down() move the depth of a state by one in
\* either direction, below zero too.
C16_DepthIsReceiverPlusCalls ==
    /\ base.depth \in -MaxDepth..MaxDepth
    /\ pc = "ready" => st.depth = base.depth
    /\ pc \in {"lex", "ser"} => st.depth = base.depth + 1
    /\ pc \in {"decoded", "encoded", "done"} => ItemsAtDepth(Decoded, base.depth + 1)

\* a conversion called on a state after up(): an item decoded two nested calls
\* below the top-level call
C16_Witness ==
    /\ pc = "decoded"
    /\ base.depth = -1
    /\ Len(first) >= 1
    /\ first[1].type = "quote"
    /\ first[1].nodes # <<>>
    /\ first[1].nodes[1].type = "quote"
    /\ first[1].nodes[1].nodes # <<>>
    /\ first[1].nodes[1].nodes[1].type = "item"
    /\ first[1].nodes[1].nodes[1].data.depth = 2

(***************************************************************************)
(* C17                                                                     *)
(***************************************************************************)
\* every item of the list was decoded in a state showing the receiver's prop
\* "origin" and marks and the given "level", the items inside a quote block the
\* level the nest rule set for them; literal text is in the node pushText makes
\* under the receiver's rule-set key
RECURSIVE ItemsSee(_, _)
ItemsSee(nodes, level) ==
    \A i \in DOMAIN nodes :
        CASE nodes[i].type = "item" ->
                /\ nodes[i].data.level = level
                /\ nodes[i].data.origin = getProp(base, "origin")
                /\ nodes[i].marks = base.marks
          [] nodes[i].type = "quote" -> ItemsSee(nodes[i].nodes, Deeper(level))
          [] OTHER -> nodes[i].kind = (IF base.kind = "block" THEN "block" ELSE "text")

RECURSIVE CountItems(_)
CountItems(nodes) ==
    IF nodes = <<>> THEN 0
    ELSE (CASE Head(nodes).type = "item" -> 1
            [] Head(nodes).type = "quote" -> CountItems(Head(nodes).nodes)
            [] OTHER -> 0) + CountItems(Tail(nodes))

Count(t, c) == Cardinality({i \in DOMAIN t : t[i] = c})

\* C17: a deserialize or serialize a rule body calls on a state S runs with
\* the props, marks and rule-set key of S: a prop set by the receiver or by a
\* rule further up is read under its name with its value at every depth below;
\* the nested node list, and for serialize the nested text, start from the
\* argument alone, so nothing of S's nodes or text is repeated in the result.
C17_Inherited ==
    base.rulesSet = Nesting =>
        /\ pc \in {"decoded", "encoded", "done"} =>
              /\ ItemsSee(Decoded, getProp(base, "level"))
              /\ CountItems(Decoded) = Count(LexInput, "a")
        /\ phase = 2 => pc # "error"
        /\ pc = "encoded" => Count(out, "a") = CountItems(first)

\* the receiver set a prop and holds text, a mark and a node; an item two
\* nested calls down was decoded and encoded again
C17_Witness ==
    /\ base.rulesSet = Nesting
    /\ pc = "encoded"
    /\ getProp(base, "origin") = "r"
    /\ base.text # <<>> /\ base.nodes # <<>> /\ base.marks # {}
    /\ first # <<>>
    /\ first[1].type = "quote"
    /\ first[1].nodes[1].type = "quote"
    /\ first[1].nodes[1].nodes[1].type = "item"
    /\ first[1].nodes[1].nodes[1].data.level = "2"
    /\ first[1].nodes[1].nodes[1].data.origin = "r"
    /\ Count(out, "a") = 1

(***************************************************************************)
(* C18                                                                     *)
(***************************************************************************)
\* the fields of a state a nested call could have changed
Frame(s) == <<s.marks, s.kind, s.rulesSet, s.depth, s.props>>

\* C18: deserialize and serialize leave the state they are called on as it
\* was, in every field; what a nested call did to marks, props, rule-set key
\* or depth does not show in the caller's state after the rule that made the
\* call; and no operation changes rulesSet.
C18_ReceiverUnchanged ==
    /\ [][pc # "ready" \/ pc' # "ready" => base' = base]_vars
    /\ [][base'.rulesSet = base.rulesSet /\ st'.rulesSet = st.rulesSet]_vars
    /\ [][(LexAccepted \/ SerAccepted) /\ base.rulesSet # Switching =>
              Frame(st') = Frame(st)]_vars
    /\ [](pc \in {"lex", "ser"} => st.rulesSet = base.rulesSet)

\* a receiver moved off its defaults by up() and setProp, after a deserialize
\* with nested calls that raised the prop "level" and a serialize of the result
C18_Witness ==
    /\ pc = "encoded"
    /\ base.rulesSet = Nesting
    /\ base.depth = -1
    /\ getProp(base, "origin") = "r"
    /\ getProp(base, "level") = Undefined
    /\ first # <<>>
    /\ first[1].type = "quote"
    /\ first[1].nodes # <<>>
    /\ first[1].nodes[1].type = "item"
    /\ first[1].nodes[1].data.level = "1"
    /\ out # <<>>

(***************************************************************************)
(* C19                                                                     *)
(***************************************************************************)
\* the first encode rule that does not pass hands back the state it was given
HandsBackSame == pc = "ser" /\ st.nodes # <<>> /\ applyRules(st, "serialize") = st

\* C19: when an encode rule hands back the very state it was given, serialize
\* throws the 'identical state' error at that call of _serialize: it does not
\* go on looping and does not go on to the rules after it; the same holds when
\* it happens in a nested serialize.
C19_IdenticalStateThrows ==
    /\ [][HandsBackSame =>
              /\ pc' = "error"
              /\ err' = IdenticalStateError
              /\ steps' = steps + 1
              /\ out' = out]_vars
    /\ [](pc = "error" /\ phase = 2 /\ base.rulesSet = Faulty => err = IdenticalStateError)

\* serialize threw the error at a text node the rule after the faulty one would
\* have encoded
C19_Witness ==
    /\ pc = "error"
    /\ phase = 2
    /\ err = IdenticalStateError
    /\ base.kind = "inline"
    /\ steps = 1
    /\ out = <<>>
    /\ peek(st).kind = "text"
    /\ SerializeNode(RuleText, st, peek(st)) # None

(***************************************************************************)
(* C20                                                                     *)
(***************************************************************************)
\* the matches the matcher returned, as a sequence
Matched(r) == IF r.shape \in {"Array", "List"} THEN r.items ELSE <<r.match>>

\* C20: matchRule returns nothing when the matcher returns nothing; otherwise
\* it returns one token per match, in the matcher's order, a single match that
\* is not a list giving one token; each token carries its match and is typed
\* with the match's own type when it has one (not empty), else with the
\* rule's type.
C20_MatchRule ==
    mr # <<>> /\ mr.pc = "returned" =>
        IF mr.rule.onText \in Falsy
        THEN mr.result = None
        ELSE /\ mr.result # None
             /\ Len(mr.result.List) = Len(Matched(mr.rule.onText))
             /\ mr.rule.onText.shape = "object" => Len(mr.result.List) = 1
             /\ \A i \in DOMAIN mr.result.List :
                    LET token == mr.result.List[i]
                        match == Matched(mr.rule.onText)[i]
                    IN  /\ token.data = match
                        /\ token.type =
                              IF "type" \in DOMAIN match /\ match.type # ""
                              THEN match.type ELSE mr.rule.type

\* two matches in an Array, the first with a type of its own, the second with
\* none: two tokens in that order, typed em and with the rule's type
C20_Witness ==
    /\ mr # <<>>
    /\ mr.pc = "returned"
    /\ mr.rule.onText.shape = "Array"
    /\ mr.rule.type = "paragraph"
    /\ mr.result # None
    /\ Len(mr.result.List) = 2
    /\ mr.result.List[1].type = "em"
    /\ "type" \notin DOMAIN mr.result.List[2].data
    /\ mr.result.List[2].type = "paragraph"

====
